---- MODULE Spec2Model ----
(***************************************************************************)
(* modpack-sync: reconciliation of a manifest of mod files against a       *)
(* target directory (src/src/sync/mod.rs) with the paginated CurseForge    *)
(* catalog iterator (src/src/sync/curse_files.rs).                         *)
(*                                                                         *)
(* Strings are sequences of one-character strings, so that the filename    *)
(* heuristics are computed character by character as the code does.        *)
(* Option<T> is a sequence of length 0 (None) or 1 (Some).                 *)
(***************************************************************************)
EXTENDS Integers, Sequences, FiniteSets, TLC

VARIABLES
    mods,       \* the manifest: Vec<Mod>, each [filename, url]
    dir,        \* the target directory: name -> "absent" | "old" | "new" | "partial" | "subdir"
    dirExists,  \* whether the target directory exists (can be listed and written)
    phase,      \* position in sync_mods: "start" | "entries" | "done" | "aborted"
    idx,        \* index of the next manifest entry of the for loop (1-based)
    calls,      \* the network requests issued by the most recent step
    removed,    \* the names of the files unlinked by the most recent step
    outcome,    \* how the most recent step ended, as sync.log tells: "none" |
                \* "disabled" | "no_name" | "no_version" | "up_to_date" |
                \* "missing_url" | "lookup_not_found" | "lookup_error" |
                \* "download_failed" | "downloaded" | "sweep"
    errs,       \* whether the current run logged an [ERR!] line so far
    prevOk,     \* whether the previous run finished without fatal abort and without [ERR!]
    it,         \* a CurseFile pulled on its own: [project_id, page, per_page, files, total]
    served,     \* the number of records the service holds for that iterator
    requests,   \* the page requests that iterator made: [page, result], result
                \* "page" (answered in full) | "empty" (answered with no records) |
                \* "failed"
    yielded,    \* the ids of the records that iterator yielded so far
    last,       \* what its most recent next() returned: "none" | "item" | "end" | "err"
    input,      \* a filename handed to the two heuristics on their own
    parsed      \* None before, then Some([mod_name, version]) as they returned

syncVars == <<mods, dir, dirExists, phase, idx, calls, removed, outcome, errs, prevOk>>

iterVars == <<it, served, requests, yielded, last>>

heurVars == <<input, parsed>>

vars == <<mods, dir, dirExists, phase, idx, calls, removed, outcome, errs, prevOk,
          it, served, requests, yielded, last, input, parsed>>

----------------------------------------------------------------------------
(* Bounds of the model *)

MaxManifest == 2    \* longest manifest
MaxFiles == 2       \* most entries in the initial target directory

----------------------------------------------------------------------------
(* Option and string helpers (Rust std semantics) *)

None == <<>>

Some(v) == <<v>>

IsSome(o) == Len(o) = 1

Unwrap(o) == o[1]

Digits == {"0", "1", "2", "3", "4", "5", "6", "7", "8", "9"}

is_ascii_digit(c) == c \in Digits

\* s[(from+1)..] of a 0-based byte offset `from`
Drop(s, from) == SubSeq(s, from + 1, Len(s))

\* s[..to]
Take(s, to) == SubSeq(s, 1, to)

ends_with(s, suf) ==
    /\ Len(s) >= Len(suf)
    /\ SubSeq(s, Len(s) - Len(suf) + 1, Len(s)) = suf

strip_suffix(s, suf) ==
    IF ends_with(s, suf) THEN Some(Take(s, Len(s) - Len(suf))) ELSE None

contains(s, c) == \E k \in 1..Len(s) : s[k] = c

RECURSIVE trim_end_matches(_, _)
trim_end_matches(s, cs) ==
    IF Len(s) > 0 /\ s[Len(s)] \in cs
    THEN trim_end_matches(Take(s, Len(s) - 1), cs)
    ELSE s

Min(a, b) == IF a < b THEN a ELSE b

RECURSIVE SetToSeqs(_)
\* every order in which the elements of S can be listed
SetToSeqs(S) ==
    IF S = {} THEN {<<>>}
    ELSE UNION {{<<x>> \o t : t \in SetToSeqs(S \ {x})} : x \in S}

----------------------------------------------------------------------------
(* Filename heuristics *)

DotJar == <<".", "j", "a", "r">>

DotDisabled == <<".", "d", "i", "s", "a", "b", "l", "e", "d">>

LoaderSuffixes ==
    << <<"-", "f", "o", "r", "g", "e">>, <<"_", "f", "o", "r", "g", "e">>,
       <<"-", "f", "a", "b", "r", "i", "c">>, <<"_", "f", "a", "b", "r", "i", "c">>,
       <<"-", "m", "c">>, <<"_", "m", "c">> >>

RECURSIVE VersionStart(_, _)
\* the while loop of extract_mod_name: first offset i >= from whose byte is a
\* digit with a '.' somewhere in name[i..]; Len(name) when there is none
VersionStart(name, i) ==
    IF i >= Len(name) THEN i
    ELSE IF is_ascii_digit(name[i + 1]) /\ contains(Drop(name, i), ".") THEN i
    ELSE VersionStart(name, i + 1)

RECURSIVE StripLoader(_, _)
\* the for loop over the loader suffixes: the first one that matches is
\* stripped, once
StripLoader(prefix, k) ==
    IF k > Len(LoaderSuffixes) THEN prefix
    ELSE IF IsSome(strip_suffix(prefix, LoaderSuffixes[k]))
         THEN Unwrap(strip_suffix(prefix, LoaderSuffixes[k]))
         ELSE StripLoader(prefix, k + 1)

extract_mod_name(filename) ==
    IF ~IsSome(strip_suffix(filename, DotJar)) THEN None
    ELSE LET name == Unwrap(strip_suffix(filename, DotJar))
             i == VersionStart(name, 0)
         IN  IF i = Len(name) THEN None
             ELSE Some(StripLoader(trim_end_matches(Take(name, i), {"-", "_"}), 1))

RECURSIVE LastDigitEnd(_, _)
\* first while loop of extract_version: walk back to the last digit
LastDigitEnd(bytes, end) ==
    IF end > 0 /\ ~is_ascii_digit(bytes[end]) THEN LastDigitEnd(bytes, end - 1)
    ELSE end

RECURSIVE SegmentStart_dot(_, _)
\* the second while loop stopping at a '.' as well
SegmentStart_dot(bytes, start) ==
    IF start > 0 /\ bytes[start] \notin {"-", "_", "."}
    THEN SegmentStart_dot(bytes, start - 1)
    ELSE start

RECURSIVE SegmentStart(_, _)
\* second while loop of extract_version: walk back to the previous '-' or '_'
SegmentStart(bytes, start) ==
    IF start > 0 /\ bytes[start] \notin {"-", "_"} THEN SegmentStart(bytes, start - 1)
    ELSE start

extract_version(filename) ==
    IF ~IsSome(strip_suffix(filename, DotJar)) THEN None
    ELSE LET name == Unwrap(strip_suffix(filename, DotJar))
             end == LastDigitEnd(name, Len(name))
         IN  IF end = 0 THEN None
             ELSE Some(SubSeq(name, SegmentStart(name, end) + 1, end))

----------------------------------------------------------------------------
(* The inputs: filenames, urls, manifests, initial directories *)

F_foo11 == <<"f", "o", "o", "-", "1", ".", "1", ".", "j", "a", "r">>

F_foo12 == <<"f", "o", "o", "-", "1", ".", "2", ".", "j", "a", "r">>

F_fooForge12 ==
    <<"f", "o", "o", "-", "f", "o", "r", "g", "e", "-", "1", ".", "2", ".", "j", "a", "r">>

F_lib == <<"l", "i", "b", ".", "j", "a", "r">>

F_disabled == F_foo12 \o DotDisabled

F_notes == <<"n", "o", "t", "e", "s", ".", "t", "x", "t">>

F_other == <<"o", "t", "h", "e", "r", "-", "9", ".", "9", ".", "j", "a", "r">>

\* a catalog record that differs from foo-1.2.jar in letter case only
F_Foo12 == <<"F", "o", "o", "-", "1", ".", "2", ".", "j", "a", "r">>

\* every name an entry of the target directory can have
Names == {F_foo11, F_foo12, F_fooForge12, F_lib, F_disabled, F_notes}

\* names that may initially be sub-directories of the target directory
SubdirNames == {F_foo11, F_foo12}

UrlA == <<"h", "/", "m", "/", "1">>

UrlB == <<"h", "/", "m", "/", "2">>

\* struct Mod; the fields name and version are never read by sync_mods
Mod(filename, url) == [filename |-> filename, url |-> url]

Entries ==
    { Mod(F_foo11, Some(UrlA)), Mod(F_foo12, Some(UrlA)), Mod(F_foo12, Some(UrlB)),
      Mod(F_foo12, None), Mod(F_fooForge12, Some(UrlA)), Mod(F_lib, Some(UrlA)),
      Mod(F_disabled, Some(UrlA)) }

Manifests == UNION {[1..n -> Entries] : n \in 0..MaxManifest}

IsFile(kind) == kind \in {"old", "new", "partial"}

Present(d) == {n \in Names : d[n] # "absent"}

EmptyDir == [n \in Names |-> "absent"]

InitialDirs ==
    { d \in [Names -> {"absent", "old", "subdir"}] :
        /\ Cardinality(Present(d)) <= MaxFiles
        /\ \A n \in Names : d[n] = "subdir" => n \in SubdirNames }

\* the heuristics on every filename of the model, evaluated once
ModNameOf == [f \in Names |-> extract_mod_name(f)]

VersionOf == [f \in Names |-> extract_version(f)]

----------------------------------------------------------------------------
(* The remote catalog and its iterator CurseFile *)

PerPage == 50

CatalogSize == 52   \* records of project 1: two pages

\* the file listings the service holds, newest first: project 1 has every
\* release of foo, foo-1.2.jar on its second page after a record that differs
\* from it in letter case only, foo-1.1.jar once on each page; project 2 has
\* none
Catalog1 ==
    [i \in 1..CatalogSize |->
        [id |-> 1000 + i,
         file_name |-> IF i = 1 THEN F_fooForge12
                       ELSE IF i = 2 THEN F_foo11
                       ELSE IF i = 3 THEN F_Foo12
                       ELSE IF i = PerPage + 1 THEN F_foo11
                       ELSE IF i = CatalogSize THEN F_foo12
                       ELSE F_other]]

Catalog2 == [i \in 1..(CatalogSize - 1) |-> [id |-> 2000 + i, file_name |-> F_other]]

Catalog(project_id) ==
    IF project_id = <<"1">> THEN Catalog1
    ELSE IF project_id = <<"2">> THEN Catalog2
    ELSE <<>>

\* the ApiResponse of GET .../files?pageIndex=page&pageSize=per_page
ApiResponse(project_id, page, per_page) ==
    LET cat == Catalog(project_id)
    IN  [data |-> SubSeq(cat, page * per_page + 1, Min((page + 1) * per_page, Len(cat))),
         total_count |-> Len(cat)]

\* CurseFile::of
CurseFile_of(project_id) ==
    [project_id |-> project_id, page |-> 0, per_page |-> PerPage, files |-> <<>>, total |-> 0]

\* try_next with the end test `>` in place of `>=`
try_next_strict_end(it0, response) ==
    IF Len(it0.files) > 0
    THEN [it |-> [it0 EXCEPT !.files = Tail(it0.files)], item |-> Some(Head(it0.files)),
          err |-> FALSE, requested |-> FALSE]
    ELSE IF it0.page > 0 /\ it0.page * it0.per_page > it0.total
    THEN [it |-> it0, item |-> None, err |-> FALSE, requested |-> FALSE]
    ELSE IF ~IsSome(response)
    THEN [it |-> it0, item |-> None, err |-> TRUE, requested |-> TRUE]
    ELSE LET data == Unwrap(response).data
         IN  [it |-> [it0 EXCEPT !.page = it0.page + 1,
                                 !.files = IF Len(data) > 0 THEN Tail(data) ELSE data,
                                 !.total = Unwrap(response).total_count],
              item |-> IF Len(data) > 0 THEN Some(Head(data)) ELSE None,
              err |-> FALSE, requested |-> TRUE]

\* try_next with `self.page += 1` ahead of the request
try_next_page_first(it0, response) ==
    IF Len(it0.files) > 0
    THEN [it |-> [it0 EXCEPT !.files = Tail(it0.files)], item |-> Some(Head(it0.files)),
          err |-> FALSE, requested |-> FALSE]
    ELSE IF it0.page > 0 /\ it0.page * it0.per_page >= it0.total
    THEN [it |-> it0, item |-> None, err |-> FALSE, requested |-> FALSE]
    ELSE IF ~IsSome(response)
    THEN [it |-> [it0 EXCEPT !.page = it0.page + 1], item |-> None, err |-> TRUE,
          requested |-> TRUE]
    ELSE LET data == Unwrap(response).data
         IN  [it |-> [it0 EXCEPT !.page = it0.page + 1,
                                 !.files = IF Len(data) > 0 THEN Tail(data) ELSE data,
                                 !.total = Unwrap(response).total_count],
              item |-> IF Len(data) > 0 THEN Some(Head(data)) ELSE None,
              err |-> FALSE, requested |-> TRUE]

\* CurseFile::try_next, given what the page request it may make comes back
\* with: response is None when the request fails, Some(ApiResponse) otherwise.
\* Result: the iterator afterwards, Ok(Some(item)) / Ok(None) / Err, and
\* whether a page was requested. page * per_page is a u32 product; with
\* per_page = 50 it cannot wrap before page 85,899,346, far beyond any catalog
\* here.
try_next_on(it0, response) ==
    IF Len(it0.files) > 0
    THEN [it |-> [it0 EXCEPT !.files = Tail(it0.files)], item |-> Some(Head(it0.files)),
          err |-> FALSE, requested |-> FALSE]
    ELSE IF it0.page > 0 /\ it0.page * it0.per_page >= it0.total
    THEN [it |-> it0, item |-> None, err |-> FALSE, requested |-> FALSE]
    ELSE IF ~IsSome(response)
    THEN [it |-> it0, item |-> None, err |-> TRUE, requested |-> TRUE]
    ELSE LET data == Unwrap(response).data
         IN  [it |-> [it0 EXCEPT !.page = it0.page + 1,
                                 !.files = IF Len(data) > 0 THEN Tail(data) ELSE data,
                                 !.total = Unwrap(response).total_count],
              item |-> IF Len(data) > 0 THEN Some(Head(data)) ELSE None,
              err |-> FALSE, requested |-> TRUE]

\* try_next against the catalog service; fetchOk says whether a page request,
\* if one is made, succeeds
try_next(it0, fetchOk) ==
    try_next_on(it0, IF fetchOk
                     THEN Some(ApiResponse(it0.project_id, it0.page, it0.per_page))
                     ELSE None)

\* a page request as the service sees it, and whether it was answered
FilesCall(it0, ok) ==
    [op |-> "files", project_id |-> it0.project_id, page |-> it0.page, ok |-> ok]

RECURSIVE GetFileIdScan(_, _, _, _, _)
\* a loop that goes through the whole catalog and remembers the match it saw
GetFileIdScan(it0, filename, failAt, reqs, found) ==
    LET r == try_next(it0, Len(reqs) # failAt)
        reqs2 == IF r.requested THEN Append(reqs, FilesCall(it0, ~r.err)) ELSE reqs
    IN  IF r.err THEN [ok |-> FALSE, id |-> 0, calls |-> reqs2, err |-> "request"]
        ELSE IF ~IsSome(r.item)
             THEN IF IsSome(found)
                  THEN [ok |-> TRUE, id |-> Unwrap(found), calls |-> reqs2, err |-> "none"]
                  ELSE [ok |-> FALSE, id |-> 0, calls |-> reqs2, err |-> "not_found"]
        ELSE GetFileIdScan(r.it, filename, failAt, reqs2,
                           IF Unwrap(r.item).file_name = filename
                           THEN Some(Unwrap(r.item).id) ELSE found)

\* get_file_id's loop without the early return: the last match wins
GetFileIdLoop_last_match(it0, filename, failAt, reqs) ==
    GetFileIdScan(it0, filename, failAt, reqs, None)

RECURSIVE GetFileIdLoop_skip_errors(_, _, _, _)
\* get_file_id's loop over the Ok items only (`.flatten()` in place of `f?`)
GetFileIdLoop_skip_errors(it0, filename, failAt, reqs) ==
    LET r == try_next(it0, Len(reqs) # failAt)
        reqs2 == IF r.requested THEN Append(reqs, FilesCall(it0, ~r.err)) ELSE reqs
    IN  IF r.err THEN GetFileIdLoop_skip_errors(r.it, filename, failAt, reqs2)
        ELSE IF ~IsSome(r.item)
             THEN [ok |-> FALSE, id |-> 0, calls |-> reqs2, err |-> "not_found"]
        ELSE IF Unwrap(r.item).file_name = filename
             THEN [ok |-> TRUE, id |-> Unwrap(r.item).id, calls |-> reqs2, err |-> "none"]
             ELSE GetFileIdLoop_skip_errors(r.it, filename, failAt, reqs2)

RECURSIVE GetFileIdLoop(_, _, _, _)
\* the for loop of get_file_id over the iterator; failAt is the number of the
\* page request (0-based) that fails, NoFail when none does
GetFileIdLoop(it0, filename, failAt, reqs) ==
    LET r == try_next(it0, Len(reqs) # failAt)
        reqs2 == IF r.requested THEN Append(reqs, FilesCall(it0, ~r.err)) ELSE reqs
    IN  IF r.err THEN [ok |-> FALSE, id |-> 0, calls |-> reqs2, err |-> "request"]
        ELSE IF ~IsSome(r.item)
             THEN [ok |-> FALSE, id |-> 0, calls |-> reqs2, err |-> "not_found"]
        ELSE IF Unwrap(r.item).file_name = filename
             THEN [ok |-> TRUE, id |-> Unwrap(r.item).id, calls |-> reqs2, err |-> "none"]
             ELSE GetFileIdLoop(r.it, filename, failAt, reqs2)

MaxFailAt == 1      \* latest page request (0-based) that may fail

NoFail == 0 - 1

FailPoints == {NoFail} \cup 0..MaxFailAt

get_file_id(project_id, filename, failAt) ==
    GetFileIdLoop(CurseFile_of(project_id), filename, failAt, <<>>)

\* get_file_id on every lookup of the model, evaluated once
FileIdOf ==
    [project_id \in {<<"1">>, <<"2">>}, filename \in Names, failAt \in FailPoints |->
        get_file_id(project_id, filename, failAt)]

----------------------------------------------------------------------------
(* The target directory *)

\* fs::remove_file: unlinks a regular file (the run owns the directory, so
\* this succeeds); fails, ignored by every caller, on a directory and on a
\* missing path
remove_file(d, name) ==
    IF IsFile(d[name]) THEN [d EXCEPT ![name] = "absent"] ELSE d

RECURSIVE find_existing_versions(_, _)
\* entries: the names fs::read_dir yields, in the order it yields them
find_existing_versions(entries, mod_name) ==
    IF entries = <<>> THEN <<>>
    ELSE LET file_name == Head(entries)
             rest == find_existing_versions(Tail(entries), mod_name)
         IN  IF ~ends_with(file_name, DotJar) THEN rest
             ELSE IF ModNameOf[file_name] # Some(mod_name) THEN rest
             ELSE IF IsSome(VersionOf[file_name])
                  THEN <<[path |-> file_name,
                          version |-> Unwrap(VersionOf[file_name])]>> \o rest
                  ELSE rest

\* faulty variant: each existing version overwrites the flag, so the last
\* one listed decides
needs_download_last_wins(existing, new_version) ==
    IF existing = <<>> THEN TRUE
    ELSE existing[Len(existing)].version # new_version

RECURSIVE needs_download(_, _)
\* the loop over `existing`: needs_download starts true and any version
\* equal to new_version clears it for good
needs_download(existing, new_version) ==
    IF existing = <<>> THEN TRUE
    ELSE IF Head(existing).version = new_version THEN FALSE
         ELSE needs_download(Tail(existing), new_version)

RECURSIVE remove_existing(_, _)
\* the loop that removes every path of `existing`
remove_existing(d, existing) ==
    IF existing = <<>> THEN d
    ELSE remove_existing(remove_file(d, Head(existing).path), Tail(existing))

RECURSIVE LastSegment(_)
\* value.split("/").last()
LastSegment(url) ==
    IF ~contains(url, "/") THEN url
    ELSE LastSegment(Tail(url))

DownloadOutcomes == {"ok", "send_err", "body_err"}

DownloadCall(project_id, file_id) ==
    [op |-> "download", project_id |-> project_id, file_id |-> file_id]

\* download_file: the request is sent, then File::create truncates or creates
\* directory/filename, then the body is read and copied into it
download_file(d, exists, project_id, file_id, filename, dl) ==
    IF dl = "send_err"
    THEN [dir |-> d, ok |-> FALSE]
    ELSE IF ~exists \/ d[filename] = "subdir"
    THEN [dir |-> d, ok |-> FALSE]
    ELSE IF dl = "body_err"
    THEN [dir |-> [d EXCEPT ![filename] = "partial"], ok |-> FALSE]
    ELSE [dir |-> [d EXCEPT ![filename] = "new"], ok |-> TRUE]

\* faulty variant: a file is kept when its logical name is that of a
\* manifest entry, instead of its filename being in the manifest
clean_unused_mods_by_mod_name(d, ms) ==
    LET valid_names == {ModNameOf[ms[k].filename] : k \in 1..Len(ms)}
    IN  [n \in Names |->
            IF ~IsFile(d[n]) THEN d[n]
            ELSE IF ~ends_with(n, DotJar) THEN d[n]
            ELSE IF ModNameOf[n] \notin valid_names THEN "absent"
            ELSE d[n]]

\* faulty variant: every regular file that no enabled manifest entry names
\* is swept
clean_unused_mods_enabled_only(d, ms) ==
    LET valid_filenames ==
            {ms[k].filename : k \in {j \in 1..Len(ms) : ~ends_with(ms[j].filename, DotDisabled)}}
    IN  [n \in Names |->
            IF ~IsFile(d[n]) THEN d[n]
            ELSE IF n \notin valid_filenames THEN "absent"
            ELSE d[n]]

\* faulty variant: the extension test is missing
clean_unused_mods_any_extension(d, ms) ==
    LET valid_filenames == {ms[k].filename : k \in 1..Len(ms)}
    IN  [n \in Names |->
            IF ~IsFile(d[n]) THEN d[n]
            ELSE IF n \notin valid_filenames THEN "absent"
            ELSE d[n]]

\* clean_unused_mods, given that the directory can be listed
clean_unused_mods(d, ms) ==
    LET valid_filenames == {ms[k].filename : k \in 1..Len(ms)}
    IN  [n \in Names |->
            IF ~IsFile(d[n]) THEN d[n]
            ELSE IF ~ends_with(n, DotJar) THEN d[n]
            ELSE IF n \notin valid_filenames THEN "absent"
            ELSE d[n]]

----------------------------------------------------------------------------
(* sync_mods *)

\* the local half of one iteration of the for loop of sync_mods on entry m,
\* up to the removal of the existing versions; the directory listing comes
\* back in the order `entries`
reconcile_entry(d, m, entries) ==
    IF ends_with(m.filename, DotDisabled)
    THEN [dir |-> d, outcome |-> "disabled"]
    ELSE IF ~IsSome(ModNameOf[m.filename])
    THEN [dir |-> d, outcome |-> "no_name"]
    ELSE IF ~IsSome(VersionOf[m.filename])
    THEN [dir |-> d, outcome |-> "no_version"]
    ELSE LET mod_name == Unwrap(ModNameOf[m.filename])
             new_version == Unwrap(VersionOf[m.filename])
             existing == find_existing_versions(entries, mod_name)
         IN  IF ~needs_download(existing, new_version)
             THEN [dir |-> d, outcome |-> "up_to_date"]
             ELSE [dir |-> remove_existing(d, existing), outcome |-> "replace"]

\* the outcomes logged as [ERR!]: the lookup found no record, a page request
\* of the lookup failed, the download failed
ErrOutcomes == {"lookup_not_found", "lookup_error", "download_failed"}

\* faulty variant: a failed lookup or download ends the run, as the
\* .expect() calls of the earlier sync_mods did
after_entry_abort_on_error(out) == IF out \in ErrOutcomes THEN "aborted" ELSE "entries"

\* where the run stands after an entry ended as `out`: lookup and download
\* errors are logged and the loop goes on
after_entry(out) == "entries"

\* the files of d that are gone in d2
Unlinked(d, d2) == {n \in Names : IsFile(d[n]) /\ d2[n] = "absent"}

\* every listing order of every set of names, evaluated once
OrdersOf == [S \in SUBSET Names |-> SetToSeqs(S)]

\* what fs::read_dir can yield: nothing when the directory is missing
Listings(d, exists) == IF exists THEN OrdersOf[Present(d)] ELSE {<<>>}

RECURSIVE sync_entries(_, _, _)
\* the loop of sync_mods from entry k on when every page request and every
\* download is answered: the directory it leaves, and whether every lookup
\* found its file
sync_entries(d, ms, k) ==
    IF k > Len(ms) THEN [dir |-> d, ok |-> TRUE]
    ELSE LET m == ms[k]
             loc == reconcile_entry(d, m, CHOOSE entries \in Listings(d, TRUE) : TRUE)
         IN  IF loc.outcome # "replace" \/ ~IsSome(m.url)
             THEN sync_entries(loc.dir, ms, k + 1)
             ELSE LET project_id == LastSegment(Unwrap(m.url))
                      file_id == FileIdOf[project_id, m.filename, NoFail]
                      res == download_file(loc.dir, TRUE, project_id, file_id.id,
                                           m.filename, "ok")
                  IN  IF ~file_id.ok
                      THEN [dir |-> sync_entries(loc.dir, ms, k + 1).dir, ok |-> FALSE]
                      ELSE sync_entries(res.dir, ms, k + 1)

\* a whole run of sync_mods on manifest ms and an existing directory d when
\* every page request and every download is answered
sync_mods(d, ms) ==
    LET r == sync_entries(d, ms, 1)
    IN  [dir |-> clean_unused_mods(r.dir, ms), ok |-> r.ok]

\* the manifest ms with its entries in the order p
Permuted(ms, p) == [k \in 1..Len(ms) |-> ms[p[k]]]

\* the iterator and the heuristics on their own are not in use during a run
\* of sync_mods
IterIdle ==
    /\ it = CurseFile_of(<<>>)
    /\ served = 0
    /\ requests = <<>>
    /\ yielded = <<>>
    /\ last = "none"

HeurIdle ==
    /\ input = <<>>
    /\ parsed = None

Init ==
    /\ IterIdle
    /\ HeurIdle
    /\ mods \in Manifests
    /\ dirExists \in BOOLEAN
    /\ dir \in (IF dirExists THEN InitialDirs ELSE {EmptyDir})
    /\ phase = "start"
    /\ idx = 1
    /\ calls = <<>>
    /\ removed = {}
    /\ outcome = "none"
    /\ errs = FALSE
    /\ prevOk = FALSE

\* sync_mods up to the loop: stage_dir (its failure is ignored) and the
\* manifest read
StageAndLoad ==
    /\ phase = "start"
    /\ \E created \in BOOLEAN : dirExists' = (dirExists \/ created)
    /\ phase' = "entries"
    /\ idx' = 1
    /\ calls' = <<>>
    /\ removed' = {}
    /\ outcome' = "none"
    /\ errs' = FALSE
    /\ UNCHANGED <<mods, dir, prevOk>>
    /\ UNCHANGED <<iterVars, heurVars>>

\* the end of an iteration: the directory it leaves, the files it unlinked,
\* the requests it made, what it logged
EndEntry(d, gone, cs, out) ==
    /\ dir' = d
    /\ removed' = gone
    /\ calls' = cs
    /\ outcome' = out
    /\ errs' = (errs \/ out \in ErrOutcomes)
    /\ phase' = after_entry(out)
    /\ idx' = idx + 1
    /\ UNCHANGED <<mods, dirExists, prevOk>>
    /\ UNCHANGED <<iterVars, heurVars>>

\* one iteration of `for m in mods.iter()`: page request failAt of the lookup
\* fails, the download ends as dl
SyncEntry ==
    /\ phase = "entries"
    /\ idx <= Len(mods)
    /\ \E entries \in Listings(dir, dirExists) :
          LET m == mods[idx]
              loc == reconcile_entry(dir, m, entries)
              gone == Unlinked(dir, loc.dir)
          IN  IF loc.outcome # "replace" THEN EndEntry(loc.dir, gone, <<>>, loc.outcome)
              ELSE IF ~IsSome(m.url) THEN EndEntry(loc.dir, gone, <<>>, "missing_url")
              ELSE \E failAt \in FailPoints :
                     LET project_id == LastSegment(Unwrap(m.url))
                         file_id == FileIdOf[project_id, m.filename, failAt]
                     IN  IF ~file_id.ok
                         THEN EndEntry(loc.dir, gone, file_id.calls,
                                       IF file_id.err = "request" THEN "lookup_error"
                                       ELSE "lookup_not_found")
                         ELSE \E dl \in DownloadOutcomes :
                                LET res == download_file(loc.dir, dirExists, project_id,
                                                         file_id.id, m.filename, dl)
                                IN  EndEntry(res.dir, gone,
                                             Append(file_id.calls,
                                                    DownloadCall(project_id, file_id.id)),
                                             IF res.ok THEN "downloaded"
                                             ELSE "download_failed")

\* clean_unused_mods(mods_path, &mods)? after the loop; a directory that
\* cannot be listed is the fatal error of the run
CleanUnusedMods ==
    /\ phase = "entries"
    /\ idx > Len(mods)
    /\ IF dirExists
       THEN dir' = clean_unused_mods(dir, mods) /\ phase' = "done"
       ELSE dir' = dir /\ phase' = "aborted"
    /\ removed' = Unlinked(dir, dir')
    /\ calls' = <<>>
    /\ outcome' = "sweep"
    /\ UNCHANGED <<mods, dirExists, idx, errs, prevOk>>
    /\ UNCHANGED <<iterVars, heurVars>>

\* the program is started again on the same manifest and directory
Rerun ==
    /\ phase \in {"done", "aborted"}
    /\ phase' = "start"
    /\ prevOk' = (phase = "done" /\ ~errs)
    /\ idx' = 1
    /\ calls' = <<>>
    /\ removed' = {}
    /\ outcome' = "none"
    /\ errs' = FALSE
    /\ UNCHANGED <<mods, dir, dirExists>>
    /\ UNCHANGED <<iterVars, heurVars>>

Next == StageAndLoad \/ SyncEntry \/ CleanUnusedMods \/ Rerun

Spec == Init /\ [][Next]_vars

----------------------------------------------------------------------------
(* The iterator on its own: one CurseFile pulled with next() *)

MaxPages == 2       \* the service holds up to MaxPages full pages and one record more
MaxFaults == 2      \* most page requests of one iterator not answered in full

\* the catalog sizes at, just above and just below a multiple of the page size
CatalogSizes ==
    {n \in 0..(MaxPages * PerPage + 1) : n % PerPage \in {0, 1, PerPage - 1}}

\* the n records the service holds for the iterator's project, newest first
IterRecords(n) == [i \in 1..n |-> [id |-> 3000 + i, file_name |-> F_other]]

\* how a page request can end: answered with the records of the page,
\* answered with no records although the catalog has some there, or failed
\* (network or decoding)
ResponseKinds == {"page", "empty", "failed"}

\* what `.send()?.json::<ApiResponse>()?` gives for the page
Respond(kind, n, page, per_page) ==
    IF kind = "failed" THEN None
    ELSE Some([data |-> IF kind = "empty" THEN <<>>
                        ELSE SubSeq(IterRecords(n), page * per_page + 1,
                                    Min((page + 1) * per_page, n)),
               total_count |-> n])

\* <CurseFile as Iterator>::next
Iterator_next(it0, response) ==
    LET r == try_next_on(it0, response)
    IN  [it |-> r.it,
         out |-> IF r.err THEN "err" ELSE IF IsSome(r.item) THEN "item" ELSE "end",
         item |-> r.item,
         requested |-> r.requested]

Faults(reqs) == Cardinality({k \in DOMAIN reqs : reqs[k].result # "page"})

\* no run of sync_mods is under way
SyncIdle ==
    /\ mods = <<>>
    /\ dir = EmptyDir
    /\ dirExists = FALSE
    /\ phase = "idle"
    /\ idx = 1
    /\ calls = <<>>
    /\ removed = {}
    /\ outcome = "none"
    /\ errs = FALSE
    /\ prevOk = FALSE

\* CurseFile::of on a project of any of the sizes
IterInit ==
    /\ SyncIdle
    /\ HeurIdle
    /\ served \in CatalogSizes
    /\ it = CurseFile_of(<<"3">>)
    /\ requests = <<>>
    /\ yielded = <<>>
    /\ last = "none"

\* one call of next(); the page request it makes, if any, ends as kind
Pull ==
    /\ \E kind \in ResponseKinds :
          /\ kind # "page" => Faults(requests) < MaxFaults
          /\ LET r == Iterator_next(it, Respond(kind, served, it.page, it.per_page))
             IN  /\ it' = r.it
                 /\ last' = r.out
                 /\ yielded' = IF r.out = "item" THEN Append(yielded, Unwrap(r.item).id)
                                ELSE yielded
                 /\ requests' = IF r.requested
                                 THEN Append(requests, [page |-> it.page, result |-> kind])
                                 ELSE requests
    /\ UNCHANGED <<served, syncVars, heurVars>>

NextIter == Pull

SpecIter == IterInit /\ [][NextIter]_vars

----------------------------------------------------------------------------
(* The filename heuristics on their own *)

MaxNameLen == 2     \* longest mod name of a built filename
MaxArbLen == 3      \* longest arbitrary input before an optional ".jar"

\* every string of up to n characters out of chars
Strings(chars, n) == UNION {[1..k -> chars] : k \in 0..n}

\* ASCII alphanumeric mod names
AlnumNames == Strings({"a", "Z", "7"}, MaxNameLen) \ {<<>>}

\* dotted numeric versions
McVersions == {<<"1", ".", "2">>, <<"1", ".", "2", "0", ".", "1">>}

ModVersions == {<<"3", ".", "4">>, <<"0", ".", "1", "0", ".", "2">>}

\* name-mcVersion-modVersion.jar
Build(name, mc, mod) == name \o <<"-">> \o mc \o <<"-">> \o mod \o DotJar

BuiltInputs ==
    {Build(name, mc, mod) : name \in AlnumNames, mc \in McVersions, mod \in ModVersions}

\* any short string, with and without the extension: no extension, no
\* separator, no digit, nothing at all
ArbitraryInputs ==
    LET short == Strings({"a", "1", ".", "-"}, MaxArbLen)
    IN  short \cup {str \o DotJar : str \in short}

HeurInit ==
    /\ SyncIdle
    /\ IterIdle
    /\ input \in BuiltInputs \cup ArbitraryInputs
    /\ parsed = None

\* the two calls sync_mods and find_existing_versions make on a filename
Parse ==
    /\ parsed = None
    /\ parsed' = Some([mod_name |-> extract_mod_name(input),
                       version |-> extract_version(input)])
    /\ UNCHANGED <<input, syncVars, iterVars>>

NextHeur == Parse

SpecHeur == HeurInit /\ [][NextHeur]_vars

----------------------------------------------------------------------------
(* Vocabulary of the properties *)

\* the manifest's filename set
Filenames(ms) == {ms[k].filename : k \in 1..Len(ms)}

IsJarFile(d, n) == IsFile(d[n]) /\ ends_with(n, DotJar)

Disabled(f) == ends_with(f, DotDisabled)

Parsable(f) == IsSome(ModNameOf[f]) /\ IsSome(VersionOf[f])

SameMod(f, g) == IsSome(ModNameOf[f]) /\ ModNameOf[f] = ModNameOf[g]

SameRelease(f, g) == SameMod(f, g) /\ IsSome(VersionOf[f]) /\ VersionOf[f] = VersionOf[g]

Lookups(cs) == {k \in 1..Len(cs) : cs[k].op = "files"}

Downloads(cs) == {k \in 1..Len(cs) : cs[k].op = "download"}

\* the step is an iteration of the for loop, on entry mods[idx]
EntryStep == phase = "entries" /\ idx <= Len(mods) /\ idx' = idx + 1

\* the step is the orphan sweep
SweepStep == phase = "entries" /\ outcome' = "sweep"

\* the state is the one an iteration of the for loop leaves, on entry mods[idx - 1]
EntryDone == idx > 1 /\ outcome \notin {"none", "sweep"}

----------------------------------------------------------------------------
(* C1: idempotence. Once a run has finished without a fatal error and       *)
(* without a failed lookup or download, a further run on the same manifest  *)
(* and the directory it left unlinks no file and downloads nothing.         *)

C1_Idempotence == prevOk => removed = {} /\ Downloads(calls) = {}

----------------------------------------------------------------------------
(* C2: orphan removal. When a run ends without a fatal error, no regular    *)
(* file named *.jar whose name is outside the manifest's filename set is    *)
(* left, whatever happened to each manifest entry; and the sweep is made    *)
(* only once every manifest entry has been handled.                         *)

NoOrphanLeft == \A n \in Names : IsJarFile(dir, n) => n \in Filenames(mods)

C2_OrphanRemoval ==
    /\ [](phase = "done" => NoOrphanLeft)
    /\ [][SweepStep => idx = Len(mods) + 1 /\ idx' = idx]_vars

\* a run with a failed entry ended and its sweep unlinked an orphan
C2_Witness == phase = "done" /\ errs /\ removed # {} /\ NoOrphanLeft

----------------------------------------------------------------------------
(* C3: failure isolation. A failed lookup or download of an entry leaves    *)
(* the run in the loop, at the next entry; a run ends only through the      *)
(* sweep, made after the last entry.                                        *)

C3_FailureIsolation ==
    /\ [][EntryStep /\ outcome' \in ErrOutcomes
            => phase' = "entries" /\ idx' = idx + 1 /\ mods' = mods]_vars
    /\ [](phase \in {"done", "aborted"} => outcome = "sweep" /\ idx = Len(mods) + 1)

\* after an earlier entry failed, a later one was downloaded
C3_Witness == errs /\ outcome = "downloaded" /\ phase = "entries"

----------------------------------------------------------------------------
(* C4: disabled entries are inert. No step changes the directory entry      *)
(* named as a disabled manifest entry, and the iteration on a disabled      *)
(* entry issues no request.                                                 *)

C4_DisabledInert ==
    /\ [][\A k \in 1..Len(mods) :
            Disabled(mods[k].filename) => dir'[mods[k].filename] = dir[mods[k].filename]]_vars
    /\ [][EntryStep /\ Disabled(mods[idx].filename)
            => calls' = <<>> /\ dir' = dir /\ outcome' = "disabled"]_vars

\* a run ended on a manifest with a disabled entry whose file is in the directory
C4_Witness ==
    /\ phase = "done"
    /\ F_disabled \in Filenames(mods)
    /\ dir[F_disabled] = "old"
    /\ removed # {}

----------------------------------------------------------------------------
(* C5: an entry without url is warn-only. The iteration on such an entry    *)
(* unlinks no file, issues no request and writes no file.                   *)

C5_MissingUrlWarnOnly ==
    EntryDone /\ ~IsSome(mods[idx - 1].url) /\ ~Disabled(mods[idx - 1].filename)
        => removed = {} /\ calls = <<>> /\ outcome \notin {"downloaded", "download_failed"}

----------------------------------------------------------------------------
(* C6: heuristic fallback. The iteration on an entry that is not disabled   *)
(* and whose filename yields no logical name or no version token is decided *)
(* by filename equality: with a local file of exactly that name it changes  *)
(* nothing and issues no request, and without one the entry is looked up    *)
(* in the catalog.                                                          *)

C6_HeuristicFallback ==
    [][EntryStep /\ ~Disabled(mods[idx].filename) /\ ~Parsable(mods[idx].filename)
         /\ IsSome(mods[idx].url)
         => IF dir[mods[idx].filename] # "absent"
            THEN dir' = dir /\ calls' = <<>>
            ELSE Lookups(calls') # {}]_vars

----------------------------------------------------------------------------
(* C7: a lookup that finds no record after the last page leaves the         *)
(* directory alone: the iteration creates and removes nothing, also when    *)
(* older releases of the same logical name are in the directory.            *)

C7_LookupFailureKeepsDir ==
    [][EntryStep /\ outcome' = "lookup_not_found" => dir' = dir]_vars

----------------------------------------------------------------------------
(* C8: up-to-date skip. When the directory holds a regular file named *.jar *)
(* with the logical name and the version token of a parsable entry, the     *)
(* iteration on that entry issues no request and leaves the directory as it *)
(* is, in whichever order the directory is listed.                          *)

UpToDate(d, f) == \E n \in Names : IsJarFile(d, n) /\ SameRelease(n, f)

C8_UpToDateSkip ==
    [][EntryStep /\ Parsable(mods[idx].filename) /\ UpToDate(dir, mods[idx].filename)
         => calls' = <<>> /\ dir' = dir /\ removed' = {} /\ outcome' = "up_to_date"]_vars

\* an entry was skipped in a directory that holds two releases of its mod,
\* the matching one under another filename than the entry's
C8_Witness ==
    /\ outcome = "up_to_date"
    /\ EntryDone
    /\ mods[idx - 1].filename = F_foo12
    /\ dir[F_foo12] = "absent"
    /\ dir[F_fooForge12] = "old"
    /\ dir[F_foo11] = "old"

----------------------------------------------------------------------------
(* C9: replace. For an entry with a url and a parsable filename, when no    *)
(* regular file named *.jar of its logical name has its version token, the  *)
(* iteration unlinks every regular *.jar file of that logical name, the     *)
(* entry's file exists after a successful lookup and download, and no other *)
(* regular *.jar file of that logical name is left.                         *)

C9_Replace ==
    [][EntryStep /\ IsSome(mods[idx].url) /\ Parsable(mods[idx].filename)
         /\ ~UpToDate(dir, mods[idx].filename)
         => /\ \A n \in Names :
                 IsJarFile(dir, n) /\ SameMod(n, mods[idx].filename) => n \in removed'
            /\ outcome' = "downloaded" => IsFile(dir'[mods[idx].filename])
            /\ \A n \in Names \ {mods[idx].filename} :
                 SameMod(n, mods[idx].filename) => ~IsJarFile(dir', n)]_vars

----------------------------------------------------------------------------
(* C10: non-artifact files are untouched. No step changes a directory entry *)
(* whose name does not end in .jar, nor a sub-directory of any name.        *)

C10_NonArtifactsUntouched ==
    [][\A n \in Names :
         ~ends_with(n, DotJar) \/ dir[n] = "subdir" => dir'[n] = dir[n]]_vars

\* a run unlinked files and downloaded one beside a text file and a
\* sub-directory named like an older release, which are both still there
C10_Witness ==
    /\ phase = "done"
    /\ dir[F_notes] = "old"
    /\ dir[F_foo11] = "subdir"
    /\ dir[F_foo12] = "new"

----------------------------------------------------------------------------
\* C11 (entry independence): for a fixed directory and catalog, when every
\* lookup and every download of the run succeeds, the directory a run leaves
\* is the same for every order of the manifest's entries.
C11_EntryIndependence ==
    (phase = "start" /\ dirExists) =>
        \A p \in Permutations(1..Len(mods)) :
            (sync_mods(dir, mods).ok /\ sync_mods(dir, Permuted(mods, p)).ok)
                => sync_mods(dir, Permuted(mods, p)).dir = sync_mods(dir, mods).dir

----------------------------------------------------------------------------
\* every page request so far was answered in full
Honest == \A k \in DOMAIN requests : requests[k].result = "page"

\* max(1, ceil(n / PerPage))
PagesNeeded(n) == IF n = 0 THEN 1 ELSE (n + PerPage - 1) \div PerPage

\* C12 (iterator completeness and termination): with a catalog of N records
\* served in pages of PerPage with totalCount = N and no failed request, the
\* iterator yields the N records once each in catalog order, one per pull,
\* then ends, having requested pages 0, 1, 2, ... in order, max(1,
\* ceil(N / PerPage)) of them in all.
C12_IteratorCompleteness ==
    /\ [](Honest =>
            /\ Len(yielded) <= served
            /\ \A k \in DOMAIN yielded : yielded[k] = IterRecords(served)[k].id
            /\ Len(requests) <= PagesNeeded(served)
            /\ \A k \in DOMAIN requests : requests[k].page = k - 1
            /\ last = "end" => /\ Len(yielded) = served
                               /\ Len(requests) = PagesNeeded(served))
    /\ [][Honest' =>
            IF Len(yielded) < served
            THEN last' = "item" /\ Len(yielded') = Len(yielded) + 1
            ELSE last' = "end" /\ yielded' = yielded]_vars

C12_Witness ==
    /\ Honest
    /\ last = "end"
    /\ served = MaxPages * PerPage + 1
    /\ Len(yielded) = served
    /\ Len(requests) = MaxPages + 1

----------------------------------------------------------------------------
\* C13 (iterator end condition): next() returns None only in a state where
\* the buffer is exhausted, at least one page has been fetched and
\* page * per_page >= total; with an exhausted buffer in any other state,
\* the state after a page that came back with no records included, it goes
\* on to the next page instead of ending.
C13_EndCondition ==
    last = "end" =>
        /\ Len(it.files) = 0
        /\ it.page > 0
        /\ it.page * it.per_page >= it.total

----------------------------------------------------------------------------
\* the position of the first record of cat named f, 0 when there is none
FirstMatch(cat, f) ==
    IF \E k \in DOMAIN cat : cat[k].file_name = f
    THEN CHOOSE k \in DOMAIN cat :
            /\ cat[k].file_name = f
            /\ \A j \in 1..(k - 1) : cat[j].file_name # f
    ELSE 0

\* C14 (lazy lookup with early exit): a lookup that succeeds is answered by
\* the first catalog record whose fileName is the entry's filename, letter
\* case included; with that record on page k (0-based) the iteration requests
\* pages 0..k, each once and in order, and no page after it, and the download
\* that follows uses that record's id.
C14_LazyLookup ==
    EntryDone /\ outcome \in {"downloaded", "download_failed"} =>
        LET m == mods[idx - 1]
            project_id == LastSegment(Unwrap(m.url))
            cat == Catalog(project_id)
            pos == FirstMatch(cat, m.filename)
            k == (pos - 1) \div PerPage
        IN  /\ pos > 0
            /\ Len(calls) = k + 2
            /\ \A j \in 1..(k + 1) :
                  calls[j] = [op |-> "files", project_id |-> project_id, page |-> j - 1,
                              ok |-> TRUE]
            /\ calls[k + 2] = DownloadCall(project_id, cat[pos].id)

\* foo-1.2.jar was found on the second page, behind Foo-1.2.jar on the first,
\* and downloaded
C14_Witness ==
    /\ EntryDone
    /\ outcome = "downloaded"
    /\ mods[idx - 1].filename = F_foo12
    /\ Len(calls) = 3
    /\ calls[2].page = 1
    /\ dir[F_foo12] = "new"

----------------------------------------------------------------------------
\* C15 (stop on the first catalog error): a page request that fails is the
\* last request of the iteration: no further page is requested, nothing is
\* downloaded, and the entry is reported as a failed lookup.
C15_StopOnFirstError ==
    EntryDone =>
        /\ \A k \in Lookups(calls) :
              ~calls[k].ok => /\ k = Len(calls)
                              /\ outcome = "lookup_error"
        /\ outcome = "lookup_error" =>
              /\ calls # <<>>
              /\ ~calls[Len(calls)].ok
              /\ Downloads(calls) = {}
              /\ errs
              /\ dir[mods[idx - 1].filename] \notin {"new", "partial"}

\* the request for the second page failed after the first page was searched
C15_Witness ==
    /\ EntryDone
    /\ outcome = "lookup_error"
    /\ Len(calls) = 2
    /\ calls[1].ok
    /\ ~calls[2].ok
    /\ calls[2].page = 1

----------------------------------------------------------------------------
IsPrefix(p, str) == Len(p) <= Len(str) /\ SubSeq(str, 1, Len(p)) = p

IsSubstring(sub, str) ==
    \E k \in 0..(Len(str) - Len(sub)) : SubSeq(str, k + 1, k + Len(sub)) = sub

\* C16 (filename heuristics round trip): on name-mcVersion-modVersion.jar
\* with an ASCII alphanumeric name and dotted numeric versions,
\* extract_mod_name returns a prefix of name and extract_version returns a
\* token that ends the filename before its extension and contains
\* modVersion; on every input each of the two returns None or a part of the
\* input.
C16_HeuristicsRoundTrip ==
    IsSome(parsed) =>
        LET r == Unwrap(parsed)
        IN  /\ Len(r.mod_name) <= 1
            /\ IsSome(r.mod_name) => IsPrefix(Unwrap(r.mod_name), input)
            /\ Len(r.version) <= 1
            /\ IsSome(r.version) => IsSubstring(Unwrap(r.version), input)
            /\ \A name \in AlnumNames, mc \in McVersions, mod \in ModVersions :
                  input = Build(name, mc, mod) =>
                      /\ IsSome(r.mod_name)
                      /\ IsPrefix(Unwrap(r.mod_name), name)
                      /\ IsSome(r.version)
                      /\ ends_with(input, Unwrap(r.version) \o DotJar)
                      /\ IsSubstring(mod, Unwrap(r.version))

\* a built filename whose name has a digit was parsed: the name is cut at
\* the digit, the version token is the mod version
C16_Witness ==
    /\ input = Build(<<"a", "7">>, <<"1", ".", "2", "0", ".", "1">>,
                     <<"0", ".", "1", "0", ".", "2">>)
    /\ parsed = Some([mod_name |-> Some(<<"a">>),
                      version |-> Some(<<"0", ".", "1", "0", ".", "2">>)])

----------------------------------------------------------------------------
\* C17 (convergence): when a run has ended with no failed lookup or
\* download, the directory holds, for every manifest entry that is not
\* disabled and has a url, a regular file named exactly as the entry's
\* filename, whatever the directory held before.
C17_Convergence ==
    (phase = "done" /\ ~errs) =>
        \A k \in 1..Len(mods) :
            (~Disabled(mods[k].filename) /\ IsSome(mods[k].url))
                => IsFile(dir[mods[k].filename])

----------------------------------------------------------------------------
\* C18 (manifest-listed files are never deleted): no step of a run unlinks
\* a file whose name is in the manifest's filename set, also when two
\* manifest entries have the same logical name.
C18_ManifestFilesKept == removed \cap Filenames(mods) = {}

----------------------------------------------------------------------------
\* the last element of a non-empty sequence
Last(reqs) == reqs[Len(reqs)]

\* the step made a page request
Requested == Len(requests') = Len(requests) + 1

\* C19 (a failed fetch keeps the iterator state): a next() whose page
\* request fails returns the error and leaves page, buffer and total as they
\* were; the page index is the number of page requests answered so far; and
\* the request after a failed one is for the same page index.
C19_FailedFetchKeepsState ==
    /\ [](it.page = Cardinality({k \in DOMAIN requests : requests[k].result # "failed"}))
    /\ [][Requested /\ Last(requests').result = "failed"
            => it' = it /\ last' = "err" /\ yielded' = yielded]_vars
    /\ [][Requested /\ requests # <<>> /\ Last(requests).result = "failed"
            => Last(requests').page = Last(requests).page]_vars

\* the request for the second page failed, was made again and answered, and
\* the iterator went through the whole catalog
C19_Witness ==
    /\ Len(requests) = 3
    /\ requests[2] = [page |-> 1, result |-> "failed"]
    /\ requests[3] = [page |-> 1, result |-> "page"]
    /\ last = "end"
    /\ Len(yielded) = served

====
